---- MODULE Spec2Model ----
(***************************************************************************)
(* Model of src/tmp/demo-video/render_slides.py: the greedy text wrapper   *)
(* (_wrap_to_width), the centred text renderer (draw_centered_text), the   *)
(* terminal window renderer (draw_terminal_window) and the slide composer  *)
(* (main).  A string is a sequence of one-character strings.               *)
(***************************************************************************)
EXTENDS Integers, Sequences, FiniteSets, TLC

VARIABLES
    \* _wrap_to_width: the arguments, the loop positions, the locals, and
    \* starts[p], the length of out when paragraph p was begun
    text, max_width, li, words, wi, current, out, starts, wpc,
    \* draw_terminal_window: the arguments, one pixel of img (at probe) and
    \* its colour when the call began, the
    \* locals of the content block and the draw.text calls made for content
    x, y, w, h, font_size, lines, title_w, probe, background, pixel,
    max_lines, trimmed, idx, drawn, tpc,
    \* draw_centered_text: the measured widths of the lines of text, y, the
    \* locals text_w and x, and the block handed to draw.multiline_text
    center_text, center_y, text_w, center_x, placed, cpc,
    \* main: whether the font file and the transcript file can be read (and
    \* the transcript's lines), the content picked for the demo slide, the
    \* files saved with the content lines drawn in their window
    font_found, transcript_found, transcript, picked, saved, mpc

wrapVars == <<text, max_width, li, words, wi, current, out, starts, wpc>>

winVars == <<x, y, w, h, font_size, lines, title_w, probe, background, pixel,
             max_lines, trimmed, idx, drawn, tpc>>

centerVars == <<center_text, center_y, text_w, center_x, placed, cpc>>

mainVars == <<font_found, transcript_found, transcript, picked, saved, mpc>>

vars == <<wrapVars, winVars, centerVars, mainVars>>

(***************************************************************************)
(* Bounds of the model.                                                    *)
(***************************************************************************)
MaxTextLen == 5
MaxWidth == 4
MaxLines == 15
MaxDelta == 3
MaxTextLines == 2
MaxTranscript == 3

NL == "\n"
SP == " "
TAB == "\t"
Chars == {"a", "b", SP, TAB, NL}
Texts == UNION {[1..n -> Chars] : n \in 0..MaxTextLen}
Widths == -1..MaxWidth

(***************************************************************************)
(* Font metrics: draw.textbbox((0, 0), s, font) and bbox[2] - bbox[0].     *)
(* The width of a string is the sum of the advances of its characters.     *)
(***************************************************************************)
CharWidth(c) == IF c = "b" THEN 2 ELSE 1

RECURSIVE Measure(_)
Measure(s) == IF s = <<>> THEN 0 ELSE CharWidth(Head(s)) + Measure(Tail(s))

(***************************************************************************)
(* str.split(sep): every separator cuts, empty pieces are kept.            *)
(***************************************************************************)
RECURSIVE SplitOn(_, _)
SplitOn(s, sep) ==
    IF s = <<>> THEN << <<>> >>
    ELSE LET rest == SplitOn(Tail(s), sep)
         IN  IF Head(s) = sep
             THEN << <<>> >> \o rest
             ELSE << <<Head(s)>> \o Head(rest) >> \o Tail(rest)

(***************************************************************************)
(* str.splitlines(): as split on the line break, without the empty piece   *)
(* after a final line break.                                               *)
(***************************************************************************)
SplitLines(t) ==
    LET segs == SplitOn(t, NL)
    IN  IF segs[Len(segs)] = <<>> THEN SubSeq(segs, 1, Len(segs) - 1) ELSE segs

(***************************************************************************)
(* not raw_line.strip(): the line has no character other than whitespace.  *)
(***************************************************************************)
IsBlankEmptyOnly(raw_line) == raw_line = <<>>

IsBlank(raw_line) == \A i \in 1..Len(raw_line) : raw_line[i] \in {SP, TAB}

(***************************************************************************)
(* words = raw_line.split(" ")                                             *)
(***************************************************************************)
WordsCollapsed(raw_line) ==
    SelectSeq(SplitOn(raw_line, SP), LAMBDA word : word # <<>>)

Words(raw_line) == SplitOn(raw_line, SP)

(***************************************************************************)
(* candidate = w if not current else current + " " + w                     *)
(***************************************************************************)
Candidate(cur, word) == IF cur = <<>> THEN word ELSE cur \o <<SP>> \o word

(***************************************************************************)
(* One iteration of the loop over the words of a paragraph: the new        *)
(* buffer and the lines appended to out.                                   *)
(***************************************************************************)
WrapStepKeepCandidate(cur, word, mw) ==
    [current |-> Candidate(cur, word), emit |-> <<>>]

WrapStep(cur, word, mw) ==
    IF Measure(Candidate(cur, word)) <= mw
    THEN [current |-> Candidate(cur, word), emit |-> <<>>]
    ELSE [current |-> word, emit |-> IF cur # <<>> THEN <<cur>> ELSE <<>>]

(***************************************************************************)
(* if current: out.append(current), after the last word of a paragraph.    *)
(***************************************************************************)
FinalFlushNone(cur) == <<>>

FinalFlush(cur) == IF cur # <<>> THEN <<cur>> ELSE <<>>

raw_lines == SplitLines(text)

\* the state of a component that is not running
WrapIdle ==
    /\ text = <<>> /\ max_width = 0 /\ li = 1 /\ words = <<>> /\ wi = 1
    /\ current = <<>> /\ out = <<>> /\ starts = <<>> /\ wpc = "idle"

WinIdle ==
    /\ x = 0 /\ y = 0 /\ w = 0 /\ h = 0 /\ font_size = 0 /\ lines = <<>>
    /\ title_w = 0 /\ probe = <<0, 0>> /\ background = <<0, 0, 0>>
    /\ pixel = <<0, 0, 0>>
    /\ max_lines = 0 /\ trimmed = <<>> /\ idx = 0 /\ drawn = <<>> /\ tpc = "idle"

(***************************************************************************)
(* _wrap_to_width                                                          *)
(***************************************************************************)
WrapStart ==
    /\ text \in Texts
    /\ max_width \in Widths
    /\ li = 1
    /\ words = <<>>
    /\ wi = 1
    /\ current = <<>>
    /\ out = <<>>
    /\ starts = <<>>
    /\ wpc = "line"

\* A blank raw_line: out.append(""); continue
WrapBlankLine ==
    /\ wpc = "line"
    /\ li <= Len(raw_lines)
    /\ IsBlank(raw_lines[li])
    /\ out' = Append(out, <<>>)
    /\ starts' = Append(starts, Len(out))
    /\ li' = li + 1
    /\ UNCHANGED <<text, max_width, words, wi, current, wpc>>
    /\ UNCHANGED <<winVars, centerVars, mainVars>>

\* A non-blank raw_line: words = raw_line.split(" "); current = ""
WrapSplitLine ==
    /\ wpc = "line"
    /\ li <= Len(raw_lines)
    /\ ~IsBlank(raw_lines[li])
    /\ words' = Words(raw_lines[li])
    /\ current' = <<>>
    /\ wi' = 1
    /\ starts' = Append(starts, Len(out))
    /\ wpc' = "word"
    /\ UNCHANGED <<text, max_width, li, out>>
    /\ UNCHANGED <<winVars, centerVars, mainVars>>

\* for w in words: one iteration
WrapWord ==
    /\ wpc = "word"
    /\ wi <= Len(words)
    /\ LET r == WrapStep(current, words[wi], max_width)
       IN  /\ current' = r.current
           /\ out' = out \o r.emit
    /\ wi' = wi + 1
    /\ UNCHANGED <<text, max_width, li, words, starts, wpc>>
    /\ UNCHANGED <<winVars, centerVars, mainVars>>

\* the words are exhausted: flush the buffer and go to the next raw_line
WrapFlush ==
    /\ wpc = "word"
    /\ wi > Len(words)
    /\ out' = out \o FinalFlush(current)
    /\ li' = li + 1
    /\ wpc' = "line"
    /\ UNCHANGED <<text, max_width, words, wi, current, starts>>
    /\ UNCHANGED <<winVars, centerVars, mainVars>>

\* return out
WrapReturn ==
    /\ wpc = "line"
    /\ li > Len(raw_lines)
    /\ wpc' = "done"
    /\ UNCHANGED <<text, max_width, li, words, wi, current, out, starts>>
    /\ UNCHANGED <<winVars, centerVars, mainVars>>

CenterIdle ==
    /\ center_text = <<>> /\ center_y = 0 /\ text_w = 0 /\ center_x = 0
    /\ placed = <<>> /\ cpc = "idle"

MainIdle ==
    /\ font_found = TRUE /\ transcript_found = TRUE /\ transcript = <<>> /\ picked = <<>> /\ saved = <<>>
    /\ mpc = "idle"

InitWrap == WrapStart /\ WinIdle /\ CenterIdle /\ MainIdle

NextWrap ==
    \/ WrapBlankLine
    \/ WrapSplitLine
    \/ WrapWord
    \/ WrapFlush
    \/ WrapReturn

SpecWrap == InitWrap /\ [][NextWrap]_vars

(***************************************************************************)
(* Properties of _wrap_to_width.                                           *)
(***************************************************************************)
\* the output lines of paragraph p, once the call has returned
EndOf(p) == IF p < Len(starts) THEN starts[p + 1] ELSE Len(out)
LinesOf(p) == SubSeq(out, starts[p] + 1, EndOf(p))

NonEmptyWords(line) == SelectSeq(SplitOn(line, SP), LAMBDA word : word # <<>>)

RECURSIVE WordsOfLines(_)
WordsOfLines(ls) ==
    IF ls = <<>> THEN <<>> ELSE NonEmptyWords(Head(ls)) \o WordsOfLines(Tail(ls))

\* a paragraph that is empty or has only whitespace characters
WhitespaceOnly(line) == \A i \in 1..Len(line) : line[i] = SP \/ line[i] = TAB

SingleWord(line) == line # <<>> /\ \A i \in 1..Len(line) : line[i] # SP

AllFit == \A p \in 1..Len(raw_lines) : Measure(raw_lines[p]) <= max_width

\* C1: for max_width > 0 every line appended to out measures at most
\* max_width, unless it is a single word (no space in it) that is itself
\* wider than max_width.
C1_WidthBound ==
    max_width > 0 =>
        \A i \in 1..Len(out) :
            \/ Measure(out[i]) <= max_width
            \/ SingleWord(out[i]) /\ Measure(out[i]) > max_width

\* C1 witness: a finished call that wrapped one paragraph into two lines,
\* an over-wide single word and a line that fits.
C1_Witness ==
    /\ wpc = "done"
    /\ max_width > 0
    /\ Len(raw_lines) = 1
    /\ Len(out) = 2
    /\ \E i \in 1..Len(out) : Measure(out[i]) > max_width
    /\ \E i \in 1..Len(out) : out[i] # <<>> /\ Measure(out[i]) <= max_width

\* C4 as stated: when every input line measures at most max_width the
\* result is exactly the input lines (whatever their spaces).
C4_IdempotentAsStated ==
    (wpc = "done" /\ AllFit) => out = raw_lines

\* C4 amended: when every input line measures at most max_width, and no
\* input line begins with a space or is non-empty and whitespace-only, the
\* result is exactly the input lines, in order (trailing and repeated
\* inner spaces are kept).
NoLeadingBlank ==
    \A p \in 1..Len(raw_lines) :
        \/ raw_lines[p] = <<>>
        \/ raw_lines[p][1] # SP /\ ~WhitespaceOnly(raw_lines[p])

C4_Idempotent ==
    (wpc = "done" /\ AllFit /\ NoLeadingBlank) => out = raw_lines

\* C4 witness: a finished call on fitting lines, among them a line with
\* repeated spaces and an empty line, returned unchanged.
C4_Witness ==
    /\ wpc = "done"
    /\ AllFit
    /\ NoLeadingBlank
    /\ Len(raw_lines) >= 2
    /\ \E p \in 1..Len(raw_lines) :
          \E i \in 1..(Len(raw_lines[p]) - 1) :
              raw_lines[p][i] = SP /\ raw_lines[p][i + 1] = SP
    /\ out = raw_lines

\* C8: every empty or whitespace-only paragraph yields exactly one output
\* line, the empty line, at the paragraph's place in the output, and every
\* other paragraph yields no empty line; "a\n\nb" yields "a", "", "b" for
\* every max_width.
C8_BlankLines ==
    wpc = "done" =>
        /\ Len(starts) = Len(raw_lines)
        /\ \A p \in 1..Len(raw_lines) :
              IF WhitespaceOnly(raw_lines[p])
              THEN LinesOf(p) = << <<>> >>
              ELSE \A i \in 1..Len(LinesOf(p)) : LinesOf(p)[i] # <<>>
        /\ text = <<"a", NL, NL, "b">> => out = << <<"a">>, <<>>, <<"b">> >>

\* C8 witness: the call on "a\n\nb" has returned its three lines.
C8_Witness ==
    /\ wpc = "done"
    /\ text = <<"a", NL, NL, "b">>
    /\ out = << <<"a">>, <<>>, <<"b">> >>

\* C10: for every non-blank paragraph the non-empty words read off its
\* output lines, in order, are the non-empty words of the paragraph, and
\* the paragraphs' lines follow one another in paragraph order.
C10_WordsPreserved ==
    wpc = "done" =>
        /\ Len(starts) = Len(raw_lines)
        /\ \A p \in 1..Len(raw_lines) :
              /\ starts[p] <= EndOf(p)
              /\ ~WhitespaceOnly(raw_lines[p]) =>
                    WordsOfLines(LinesOf(p)) = NonEmptyWords(raw_lines[p])
        /\ Len(raw_lines) > 0 => starts[1] = 0

\* C10 witness: a finished call in which a paragraph of two words was
\* broken into two lines and was followed by another paragraph.
C10_Witness ==
    /\ wpc = "done"
    /\ Len(raw_lines) >= 2
    /\ ~WhitespaceOnly(raw_lines[1])
    /\ Len(NonEmptyWords(raw_lines[1])) = 2
    /\ Len(LinesOf(1)) = 2
    /\ ~WhitespaceOnly(raw_lines[2])

(***************************************************************************)
(* Theme and the constants of draw_terminal_window.                        *)
(***************************************************************************)
THEME ==
    [bg |-> <<11, 15, 20>>, card_bg |-> <<17, 23, 31>>,
     card_border |-> <<36, 46, 63>>, title |-> <<241, 245, 249>>,
     text |-> <<226, 232, 240>>, muted |-> <<148, 163, 184>>,
     accent |-> <<56, 189, 248>>, green |-> <<34, 197, 94>>]

W == 1920
radius == 24
header_h == 64
shadow_margin == 10
shadow_alpha == 140
pad_x == 34
pad_y == header_h + 24
bottom_margin == 30
title_size == 26
header_fill == <<24, 33, 46>>

(***************************************************************************)
(* Inputs of draw_terminal_window: the panels and content fonts of main,   *)
(* and panels lower than the content padding.                              *)
(***************************************************************************)
Heights == {60, 100, 520, 600, 620, 640}
FontSizes == {26, 28, 30}
Backgrounds == {THEME.bg, <<200, 100, 255>>}
LineColors == <<THEME.text, THEME.muted, THEME.accent, THEME.green>>

\* content line i of a caller: its text (named by i), its colour and the
\* measured width of the text
ContentLine(i) ==
    [text |-> i, color |-> LineColors[(i % 4) + 1], width |-> 400 * (i % 4)]

(***************************************************************************)
(* Shapes, with PIL's inclusive corner coordinates.                        *)
(***************************************************************************)
InRect(px, py, x0, y0, x1, y1) == x0 <= px /\ px <= x1 /\ y0 <= py /\ py <= y1

Clamp(v, lo, hi) == IF v < lo THEN lo ELSE IF v > hi THEN hi ELSE v

\* rounded_rectangle((x0, y0, x1, y1), radius=r): the rectangle less the
\* parts of its corner squares outside the corner circles
InRounded(px, py, x0, y0, x1, y1, r) ==
    /\ InRect(px, py, x0, y0, x1, y1)
    /\ LET dx == px - Clamp(px, x0 + r, x1 - r)
           dy == py - Clamp(py, y0 + r, y1 - r)
       IN  dx * dx + dy * dy <= r * r

\* ellipse((x0, y0, x1, y1)) for a circle of radius r
InCircle(px, py, x0, y0, r) ==
    (px - (x0 + r)) * (px - (x0 + r)) + (py - (y0 + r)) * (py - (y0 + r)) <= r * r

\* rounded_rectangle(..., fill=f, outline=o, width=2) seen at one pixel
RoundedPaint(px, py, x0, y0, x1, y1, r, f, o, old) ==
    IF ~InRounded(px, py, x0, y0, x1, y1, r) THEN old
    ELSE IF InRounded(px, py, x0 + 2, y0 + 2, x1 - 2, y1 - 2, r - 2) THEN f
    ELSE o

(***************************************************************************)
(* img.paste(shadow, (x - 10, y - 10), shadow): the layer is transparent   *)
(* outside the rounded rectangle (10, 10, 10 + w, 10 + h), black with      *)
(* alpha 140 inside it; a channel is blended with rounding to nearest.     *)
(***************************************************************************)
Div255(a) == LET t == a + 128 IN ((t \div 256) + t) \div 256

Blend(dst, src, alpha) == Div255(dst * (255 - alpha) + src * alpha)

InLayer(px, py) ==
    /\ 0 <= px - (x - shadow_margin) /\ px - (x - shadow_margin) < w + 2 * shadow_margin
    /\ 0 <= py - (y - shadow_margin) /\ py - (y - shadow_margin) < h + 2 * shadow_margin

LayerAlpha(px, py) ==
    IF InRounded(px - (x - shadow_margin), py - (y - shadow_margin),
                 shadow_margin, shadow_margin,
                 shadow_margin + w, shadow_margin + h, radius)
    THEN shadow_alpha ELSE 0

ShadowPaint(px, py, old) ==
    IF InLayer(px, py)
    THEN [c \in 1..3 |-> Blend(old[c], 0, LayerAlpha(px, py))]
    ELSE old

(***************************************************************************)
(* Content geometry: line_h = int(font.size * 1.45);                       *)
(* max_lines = (h - pad_y - 30) // line_h; trimmed = lines[:max_lines].    *)
(***************************************************************************)
LineHRounded(size) == (size * 145 + 50) \div 100

LineH(size) == (size * 145) \div 100

MaxLinesOf(height, size) == (height - pad_y - bottom_margin) \div LineH(size)

\* s[:n] of Python: a negative n counts from the end
SliceTo(s, n) ==
    IF n >= 0 THEN SubSeq(s, 1, IF n < Len(s) THEN n ELSE Len(s))
    ELSE IF Len(s) + n > 0 THEN SubSeq(s, 1, Len(s) + n) ELSE <<>>

\* draw.text((tx, ty), ...) of a text of measured width tw in a font of the
\* given size touches only pixels of the text's box, and which of them is
\* the font's glyph data
InTextBox(px, py, tx, ty, tw, size) ==
    InRect(px, py, tx, ty, tx + tw - 1, ty + LineH(size) - 1)

Probes ==
    {<<px, py>> : px \in {x - 10, x - 5, x, x + 12, x + 40, x + w \div 2, x + w + 5},
                  py \in {y - 5, y, y + 12, y + 32, y + 95, y + h - 1, y + h + 5}}

(***************************************************************************)
(* draw_terminal_window                                                    *)
(***************************************************************************)
WinStart ==
    /\ x = 120
    /\ y = 240
    /\ w = 1680
    /\ h \in Heights
    /\ font_size \in FontSizes
    /\ \E n \in 0..MaxLines : lines = [i \in 1..n |-> ContentLine(i)]
    /\ title_w = 234
    /\ probe \in Probes
    /\ background \in Backgrounds
    /\ pixel = background
    /\ max_lines = 0
    /\ trimmed = <<>>
    /\ idx = 0
    /\ drawn = <<>>
    /\ tpc = "shadow"

\* the shadow layer is built and pasted
PasteShadow ==
    /\ tpc = "shadow"
    /\ pixel' = ShadowPaint(probe[1], probe[2], pixel)
    /\ tpc' = "panel"
    /\ UNCHANGED <<x, y, w, h, font_size, lines, title_w, probe, background,
                   max_lines, trimmed, idx, drawn>>
    /\ UNCHANGED <<wrapVars, centerVars, mainVars>>

\* the panel body
DrawPanel ==
    /\ tpc = "panel"
    /\ pixel' = RoundedPaint(probe[1], probe[2], x, y, x + w, y + h, radius,
                             THEME.card_bg, THEME.card_border, pixel)
    /\ tpc' = "header"
    /\ UNCHANGED <<x, y, w, h, font_size, lines, title_w, probe, background,
                   max_lines, trimmed, idx, drawn>>
    /\ UNCHANGED <<wrapVars, centerVars, mainVars>>

\* the header bar and the rectangle that squares its bottom corners
DrawHeader ==
    /\ tpc = "header"
    /\ LET bar == RoundedPaint(probe[1], probe[2], x, y, x + w, y + header_h,
                               radius, header_fill, THEME.card_border, pixel)
       IN  pixel' = IF InRect(probe[1], probe[2],
                              x, y + header_h - radius, x + w, y + header_h)
                    THEN header_fill ELSE bar
    /\ tpc' = "controls"
    /\ UNCHANGED <<x, y, w, h, font_size, lines, title_w, probe, background,
                   max_lines, trimmed, idx, drawn>>
    /\ UNCHANGED <<wrapVars, centerVars, mainVars>>

\* the three window controls
DrawControls ==
    /\ tpc = "controls"
    /\ LET cx == x + 22
           cy == y + header_h \div 2
           r == 10
       IN  pixel' =
             IF InCircle(probe[1], probe[2], cx + 56, cy - r, r) THEN <<34, 197, 94>>
             ELSE IF InCircle(probe[1], probe[2], cx + 28, cy - r, r) THEN <<234, 179, 8>>
             ELSE IF InCircle(probe[1], probe[2], cx, cy - r, r) THEN <<239, 68, 68>>
             ELSE pixel
    /\ tpc' = "title"
    /\ UNCHANGED <<x, y, w, h, font_size, lines, title_w, probe, background,
                   max_lines, trimmed, idx, drawn>>
    /\ UNCHANGED <<wrapVars, centerVars, mainVars>>

\* the title, centred in the header
DrawTitle ==
    /\ tpc = "title"
    /\ pixel' \in
         IF InTextBox(probe[1], probe[2], x + (w - title_w) \div 2,
                      y + (header_h - 26) \div 2, title_w, title_size)
         THEN {pixel, THEME.muted} ELSE {pixel}
    /\ tpc' = "content"
    /\ UNCHANGED <<x, y, w, h, font_size, lines, title_w, probe, background,
                   max_lines, trimmed, idx, drawn>>
    /\ UNCHANGED <<wrapVars, centerVars, mainVars>>

\* max_lines and trimmed are computed
TrimContent ==
    /\ tpc = "content"
    /\ max_lines' = MaxLinesOf(h, font_size)
    /\ trimmed' = SliceTo(lines, MaxLinesOf(h, font_size))
    /\ idx' = 0
    /\ tpc' = "lines"
    /\ UNCHANGED <<x, y, w, h, font_size, lines, title_w, probe, background, pixel, drawn>>
    /\ UNCHANGED <<wrapVars, centerVars, mainVars>>

\* one iteration of the loop over trimmed
DrawLine ==
    /\ tpc = "lines"
    /\ idx < Len(trimmed)
    /\ LET line == trimmed[idx + 1]
           ty == y + pad_y + idx * LineH(font_size)
       IN  /\ drawn' = Append(drawn, [line |-> line, idx |-> idx,
                                      tx |-> x + pad_x, ty |-> ty])
           /\ pixel' \in
                IF InTextBox(probe[1], probe[2], x + pad_x, ty, line.width, font_size)
                THEN {pixel, line.color} ELSE {pixel}
    /\ idx' = idx + 1
    /\ UNCHANGED <<x, y, w, h, font_size, lines, title_w, probe, background,
                   max_lines, trimmed, tpc>>
    /\ UNCHANGED <<wrapVars, centerVars, mainVars>>

\* the loop is over and the function returns
WinReturn ==
    /\ tpc = "lines"
    /\ idx >= Len(trimmed)
    /\ tpc' = "done"
    /\ UNCHANGED <<x, y, w, h, font_size, lines, title_w, probe, background, pixel,
                   max_lines, trimmed, idx, drawn>>
    /\ UNCHANGED <<wrapVars, centerVars, mainVars>>

InitWindow == WinStart /\ WrapIdle /\ CenterIdle /\ MainIdle

NextWindow ==
    \/ PasteShadow
    \/ DrawPanel
    \/ DrawHeader
    \/ DrawControls
    \/ DrawTitle
    \/ TrimContent
    \/ DrawLine
    \/ WinReturn

SpecWindow == InitWindow /\ [][NextWindow]_vars

(***************************************************************************)
(* Properties of draw_terminal_window.                                     *)
(***************************************************************************)
DrawnLines == [i \in 1..Len(drawn) |-> drawn[i].line]

FirstN(s, n) == IF n <= 0 THEN <<>> ELSE SubSeq(s, 1, n)

ConsecutiveSlots ==
    \A i \in 1..Len(drawn) :
        /\ drawn[i].idx = i - 1
        /\ drawn[i].tx = x + pad_x
        /\ drawn[i].ty = y + pad_y + (i - 1) * LineH(font_size)

\* C2: with N content lines and capacity C = max_lines, when N <= C all
\* the lines are drawn, in order, at consecutive slots; when N > C exactly
\* the first C lines are drawn and no other.
C2_Truncation ==
    tpc = "done" =>
        /\ ConsecutiveSlots
        /\ Len(lines) <= max_lines => DrawnLines = lines
        /\ Len(lines) > max_lines => DrawnLines = FirstN(lines, max_lines)

\* C3: whatever the panel height, at most max(0, capacity) content lines
\* are drawn, and every drawn line lies inside the panel:
\* pad_y + (idx + 1) * line_h <= h - 30.
C3_WithinCapacity ==
    tpc = "done" =>
        /\ Len(drawn) <= (IF max_lines > 0 THEN max_lines ELSE 0)
        /\ \A i \in 1..Len(drawn) :
              pad_y + (drawn[i].idx + 1) * LineH(font_size) <= h - bottom_margin

\* C5: after the call, a pixel under the shadow layer and outside the panel
\* footprint has every channel within one of round(0.45 * background).
Abs(n) == IF n < 0 THEN -n ELSE n

C5_ShadowBlended ==
    (/\ tpc = "done"
     /\ InLayer(probe[1], probe[2])
     /\ ~InRect(probe[1], probe[2], x, y, x + w, y + h))
    => \A c \in 1..3 : Abs(pixel[c] - (45 * background[c] + 50) \div 100) <= 1

\* C7 as stated: height 640 and font size 30 give max_lines = 11, and 15
\* content lines give 11 drawn lines.
C7_ElevenLines ==
    (tpc = "done" /\ h = 640 /\ font_size = 30 /\ Len(lines) = 15)
    => max_lines = 11 /\ Len(drawn) = 11

\* C7 amended: height 640, top padding 88, bottom margin 30 and font size
\* 30 give the line pitch int(30 * 1.45) = 43 and max_lines = 12, and 15
\* content lines give exactly the first 12 drawn.
C7_TwelveLines ==
    (tpc = "done" /\ h = 640 /\ font_size = 30 /\ Len(lines) = 15)
    => /\ pad_y = 88
       /\ LineH(font_size) = 43
       /\ max_lines = 12
       /\ Len(drawn) = 12
       /\ DrawnLines = SubSeq(lines, 1, 12)

\* C7 witness: the call with height 640, font size 30 and 15 lines has
\* returned after drawing 12 of them.
C7_Witness ==
    /\ tpc = "done" /\ h = 640 /\ font_size = 30 /\ Len(lines) = 15
    /\ Len(drawn) = 12

(***************************************************************************)
(* draw_centered_text.  multiline_textbbox of a block whose lines are      *)
(* centred on the widest one spans the width of the widest line.           *)
(***************************************************************************)
TextWidths == (0..MaxDelta) \cup ((W - MaxDelta)..(W + MaxDelta)) \cup {2 * W + 1}
CenterYs == {290, 395, 520}

RECURSIVE MaxOf(_)
MaxOf(ws) ==
    IF ws = <<>> THEN 0
    ELSE LET m == MaxOf(Tail(ws)) IN IF Head(ws) > m THEN Head(ws) ELSE m

\* bbox = draw.multiline_textbbox((0, 0), text, ...); bbox[2] - bbox[0]
BlockWidth(ws) == MaxOf(ws)

\* x = (W - text_w) // 2
CenterXUnhalved(tw) == W - tw \div 2

CenterX(tw) == (W - tw) \div 2

CenterStart ==
    /\ \E n \in 1..MaxTextLines : center_text \in [1..n -> TextWidths]
    /\ center_y \in CenterYs
    /\ text_w = 0
    /\ center_x = 0
    /\ placed = <<>>
    /\ cpc = "measure"

\* text_w is measured
CenterMeasure ==
    /\ cpc = "measure"
    /\ text_w' = BlockWidth(center_text)
    /\ cpc' = "place"
    /\ UNCHANGED <<center_text, center_y, center_x, placed>>
    /\ UNCHANGED <<wrapVars, winVars, mainVars>>

\* x is computed and the block is drawn at (x, y)
CenterDraw ==
    /\ cpc = "place"
    /\ center_x' = CenterX(text_w)
    /\ placed' = <<[x0 |-> CenterX(text_w), y0 |-> center_y,
                    x1 |-> CenterX(text_w) + text_w]>>
    /\ cpc' = "done"
    /\ UNCHANGED <<center_text, center_y, text_w>>
    /\ UNCHANGED <<wrapVars, winVars, mainVars>>

InitCentered == CenterStart /\ WrapIdle /\ WinIdle /\ MainIdle

NextCentered ==
    \/ CenterMeasure
    \/ CenterDraw

SpecCentered == InitCentered /\ [][NextCentered]_vars

(***************************************************************************)
(* Properties of draw_centered_text.                                       *)
(***************************************************************************)
LeftMargin == placed[1].x0
RightMargin == W - placed[1].x1

\* C9: the block is placed at x = floor((W - textW) / 2), textW being the
\* width of the widest line, and its left and right margins differ by at
\* most one pixel, also when the text is wider than the canvas.
C9_Centered ==
    cpc = "done" =>
        /\ Len(placed) = 1
        /\ placed[1].x1 - placed[1].x0 = MaxOf(center_text)
        /\ 2 * LeftMargin <= W - MaxOf(center_text)
        /\ 2 * LeftMargin + 1 >= W - MaxOf(center_text)
        /\ Abs(LeftMargin - RightMargin) <= 1

\* C9 witness: a text wider than the canvas, with an odd difference, has
\* been drawn with a negative left margin.
C9_Witness ==
    /\ cpc = "done"
    /\ MaxOf(center_text) > W
    /\ (MaxOf(center_text) - W) % 2 = 1
    /\ LeftMargin < 0
    /\ RightMargin = LeftMargin + 1

(***************************************************************************)
(* main.  A transcript line is its leading phrase (up to the first colon)  *)
(* and the rest; startswith is decided by the leading phrase.              *)
(***************************************************************************)
wanted_prefixes ==
    {"After V1 -> V2 migration:", "After V2 -> V3 migration:",
     "Reversed back to V1:", "After doubling:"}

AfterHeads ==
    {"After V1 -> V2 migration:", "After V2 -> V3 migration:",
     "After doubling:", "After all:"}

TranscriptHeads == wanted_prefixes \cup {"After all:", "[info]"}

TranscriptLine(head) == [head |-> head, rest |-> " ..."]

Transcripts ==
    UNION {[1..n -> {TranscriptLine(hd) : hd \in TranscriptHeads}] : n \in 0..MaxTranscript}

\* picked: the command line, the wanted lines in order, a placeholder when
\* no line was wanted
CommandLine ==
    [line |-> [head |-> "> sbt", rest |-> " -no-colors ..."], color |-> THEME.accent]

Placeholder ==
    [line |-> [head |-> "(demo output not found)", rest |-> ""], color |-> THEME.muted]

RECURSIVE PickWanted(_)
PickWanted(demo_out) ==
    IF demo_out = <<>> THEN <<>>
    ELSE (IF Head(demo_out).head \in wanted_prefixes
          THEN <<[line |-> Head(demo_out),
                  color |-> IF Head(demo_out).head \in AfterHeads
                            THEN THEME.green ELSE THEME.text]>>
          ELSE <<>>) \o PickWanted(Tail(demo_out))

Picked(demo_out) ==
    LET got == <<CommandLine>> \o PickWanted(demo_out)
    IN  IF Len(got) < 2 THEN Append(got, Placeholder) ELSE got

\* the content lines of the windows of slides 2, 3, 4 and 6, by number
Literal(n) == [i \in 1..n |-> i]

\* img.save(out_dir / file) after a window of the given content was drawn
Save(file, content, height, size) ==
    Append(saved, [file |-> file,
                   shown |-> SliceTo(content, MaxLinesOf(height, size))])

MainStart ==
    /\ font_found \in BOOLEAN
    /\ transcript_found \in BOOLEAN
    /\ transcript \in (IF transcript_found THEN Transcripts ELSE {<<>>})
    /\ picked = <<>>
    /\ saved = <<>>
    /\ mpc = "fonts"

\* the four fonts are loaded
LoadFonts ==
    /\ mpc = "fonts"
    /\ font_found
    /\ mpc' = "slide1"
    /\ UNCHANGED <<font_found, transcript_found, transcript, picked, saved>>
    /\ UNCHANGED <<wrapVars, winVars, centerVars>>

\* ImageFont.truetype raises: no slide is made
LoadFontsFails ==
    /\ mpc = "fonts"
    /\ ~font_found
    /\ mpc' = "crashed"
    /\ UNCHANGED <<font_found, transcript_found, transcript, picked, saved>>
    /\ UNCHANGED <<wrapVars, winVars, centerVars>>

Slide1 ==
    /\ mpc = "slide1"
    /\ saved' = Append(saved, [file |-> "01_title.png", shown |-> <<>>])
    /\ mpc' = "slide2"
    /\ UNCHANGED <<font_found, transcript_found, transcript, picked>>
    /\ UNCHANGED <<wrapVars, winVars, centerVars>>

Slide2 ==
    /\ mpc = "slide2"
    /\ saved' = Save("02_selectors.png", Literal(10), 640, 30)
    /\ mpc' = "slide3"
    /\ UNCHANGED <<font_found, transcript_found, transcript, picked>>
    /\ UNCHANGED <<wrapVars, winVars, centerVars>>

Slide3 ==
    /\ mpc = "slide3"
    /\ saved' = Save("03_serializable.png", Literal(6), 600, 30)
    /\ mpc' = "slide4"
    /\ UNCHANGED <<font_found, transcript_found, transcript, picked>>
    /\ UNCHANGED <<wrapVars, winVars, centerVars>>

Slide4 ==
    /\ mpc = "slide4"
    /\ saved' = Save("04_validation.png", Literal(13), 620, 26)
    /\ mpc' = "slide5"
    /\ UNCHANGED <<font_found, transcript_found, transcript, picked>>
    /\ UNCHANGED <<wrapVars, winVars, centerVars>>

\* the transcript is read, the demo lines are picked and drawn
Slide5 ==
    /\ mpc = "slide5"
    /\ transcript_found
    /\ picked' = Picked(transcript)
    /\ saved' = Save("05_demo.png", Picked(transcript), 640, 28)
    /\ mpc' = "slide6"
    /\ UNCHANGED <<font_found, transcript_found, transcript>>
    /\ UNCHANGED <<wrapVars, winVars, centerVars>>

\* read_text raises on a transcript that cannot be read, and nothing
\* catches it: main ends there
Slide5ReadFails ==
    /\ mpc = "slide5"
    /\ ~transcript_found
    /\ mpc' = "crashed"
    /\ UNCHANGED <<font_found, transcript_found, transcript, picked, saved>>
    /\ UNCHANGED <<wrapVars, winVars, centerVars>>

Slide6 ==
    /\ mpc = "slide6"
    /\ saved' = Save("06_tests.png", Literal(2), 520, 30)
    /\ mpc' = "done"
    /\ UNCHANGED <<font_found, transcript_found, transcript, picked>>
    /\ UNCHANGED <<wrapVars, winVars, centerVars>>

InitMain == MainStart /\ WrapIdle /\ WinIdle /\ CenterIdle

NextMain ==
    \/ LoadFonts
    \/ LoadFontsFails
    \/ Slide1
    \/ Slide2
    \/ Slide3
    \/ Slide4
    \/ Slide5
    \/ Slide5ReadFails
    \/ Slide6

SpecMain == InitMain /\ [][NextMain]_vars

(***************************************************************************)
(* Properties of main.                                                     *)
(***************************************************************************)
SavedFiles == [i \in 1..Len(saved) |-> saved[i].file]

AllSlides ==
    <<"01_title.png", "02_selectors.png", "03_serializable.png",
      "04_validation.png", "05_demo.png", "06_tests.png">>

\* C6: when the transcript cannot be read (and the font can), the run
\* ends without failing, all six slides are saved, the demo slide shows
\* the command line and one placeholder line, and the other slides show
\* what they show when the transcript is present.
C6_MissingTranscript ==
    (~transcript_found /\ font_found /\ mpc \in {"done", "crashed"})
    => /\ mpc = "done"
       /\ SavedFiles = AllSlides
       /\ saved[5].shown = <<CommandLine, Placeholder>>
       /\ saved[2].shown = Literal(10)
       /\ saved[3].shown = Literal(6)
       /\ saved[4].shown = Literal(13)
       /\ saved[6].shown = Literal(2)

====
